---------------------------- MODULE Spec2Model ----------------------------
(***************************************************************************)
(* A model of fifotest.c, the serial FIFO test program: the round loop of  *)
(* main(), the receive and transmit threads, the SIGINT handler, and the   *)
(* byte transport between the two device endpoints.                        *)
(*                                                                         *)
(* C arrays are 0-based, TLA+ sequences 1-based: buf[i] in the source is   *)
(* buf[i + 1] here.  exit(-1) is the process exit status 255.              *)
(***************************************************************************)
EXTENDS Integers, Sequences, FiniteSets, TLC

(* ------------------------------ bounds --------------------------------- *)

\* Largest "-l" value (opt_msglen) the model explores.
MaxLen == 3

\* Largest "-n" value (opt_nmsgs) explored, and the number of rounds explored
\* when opt_nmsgs = 0 (unlimited).
MaxRounds == 3

\* Number of bytes the transport may corrupt in one run.
MaxCorrupt == 1

\* The "-i" values (opt_seed) explored; 42 is the default of the source.
Seeds == {1, 7, 42}

(* --------------------------- program constants ------------------------- *)

\* unsigned char: a byte holds a value modulo 256.
ByteMod == 256

\* exit(-1) seen by the parent: -1 & 0377.
EXIT_FAILURE_STATUS == 255

VARIABLES
    opt_seed,     \* -i
    opt_msglen,   \* -l
    opt_nmsgs,    \* -n, 0 is unlimited
    is_tty,       \* whether the devices are ttys (tcgetattr succeeds)
    prng,         \* state of the generator
    msg,          \* the round's struct msg: [len, buf]
    msg_alloc,    \* whether msg is allocated (between malloc and free)
    msgs,         \* messages counter
    tx_bytes,     \* bytes written
    rx_bytes,     \* bytes read
    main_pc,      \* position of main()
    rx_pc,        \* position of the receive thread, "none" when there is none
    tx_pc,        \* position of the transmit thread, "none" when there is none
    rx_alive,     \* receive threads created and not yet returned
    tx_alive,     \* transmit threads created and not yet returned
    rx_buf,       \* static buf[] of receive_start
    rx_avail,     \* avail of receive_start
    rx_len,       \* len of receive_start
    rx_res,       \* res of receive_start
    tx_res,       \* res of transmit_start
    rx_fd,        \* whether the receive descriptor is open
    tx_fd,        \* whether the transmit descriptor is open
    fifo,         \* bytes written to the transmit device and not yet read
    exited,       \* whether the process has called exit()
    exit_status,  \* the status passed to exit()
    \* history variables: they record, and decide nothing
    cause,        \* which exit() call ended the process
    stats_out,    \* the lines print_stats() has printed: <<msgs, tx, rx>>
    drawLog,      \* the values drawn from the generator, in order
    completed,    \* rounds whose two threads have both been joined
    sumLen,       \* sum of msg.len over the completed rounds
    sumTrunc,     \* sum of len (of receive_start) over the completed rounds
    rx_chunks,    \* the round's non-empty read() results, in order
    rx_req,       \* the count argument of the last read()
    rx_compared,  \* how many bytes the round's memcmp() compared, -1 before it
    tx_writes,    \* the round's write() calls
    rx_created,   \* receive threads created for the current message
    tx_created,   \* transmit threads created for the current message
    corrupted,    \* bytes the transport has corrupted
    msg_id,       \* which allocation msg is: the number of msg_gen calls so far
    rx_arg,       \* the allocation passed as arg to the receive thread
    tx_arg,       \* the allocation passed as arg to the transmit thread
    rx_opens,     \* successful device_open calls on the receive device
    tx_opens,     \* successful device_open calls on the transmit device
    rx_updates,   \* the round's changes of rx_bytes
    cmp_buf1,     \* cmp_buffer(): buf1, the received bytes
    cmp_buf2,     \* cmp_buffer(): buf2, the expected bytes
    cmp_len,      \* cmp_buffer(): len
    cmp_i,        \* cmp_buffer(): the loop variable i
    cmp_out,      \* cmp_buffer(): the rows printed so far
    cmp_pc,       \* cmp_buffer(): "idle", "loop" or "done"
    lim_optarg,   \* the argument of -l
    lim_msglen,   \* opt_msglen as parsed from it
    lim_len,      \* msg->len of the message built
    lim_trunc,    \* len of receive_start
    lim_avail,    \* avail of receive_start
    lim_top,      \* the highest index of buf written so far, -1 for none
    lim_pc        \* "idle", "parse", "usage", "gen", "draw", "read" or "done"

config == <<opt_seed, opt_msglen, opt_nmsgs, is_tty>>
stats == <<msgs, tx_bytes, rx_bytes>>
rxLocals == <<rx_buf, rx_avail, rx_len, rx_res, rx_chunks, rx_req, rx_compared,
              rx_updates>>
instances == <<msg_id, rx_arg, tx_arg>>
opens == <<rx_opens, tx_opens>>
rounds == <<completed, sumLen, sumTrunc>>
created == <<rx_created, tx_created>>
exitState == <<exited, exit_status, cause>>
cmpVars == <<cmp_buf1, cmp_buf2, cmp_len, cmp_i, cmp_out, cmp_pc>>
limVars == <<lim_optarg, lim_msglen, lim_len, lim_trunc, lim_avail, lim_top,
             lim_pc>>
aux == <<cmpVars, limVars>>
program == <<opt_seed, opt_msglen, opt_nmsgs, is_tty, prng, msg, msg_alloc,
             msgs, tx_bytes, rx_bytes, main_pc, rx_pc, tx_pc, rx_alive,
             tx_alive, rx_buf, rx_avail, rx_len, rx_res, tx_res, rx_fd, tx_fd,
             fifo, exited, exit_status, cause, stats_out, drawLog, completed,
             sumLen, sumTrunc, rx_chunks, rx_req, rx_compared, tx_writes,
             rx_created, tx_created, corrupted, msg_id, rx_arg, tx_arg,
             rx_opens, tx_opens, rx_updates>>

vars == <<opt_seed, opt_msglen, opt_nmsgs, is_tty, prng, msg, msg_alloc, msgs,
          tx_bytes, rx_bytes, main_pc, rx_pc, tx_pc, rx_alive, tx_alive,
          rx_buf, rx_avail, rx_len, rx_res, tx_res, rx_fd, tx_fd, fifo, exited,
          exit_status, cause, stats_out, drawLog, completed, sumLen, sumTrunc,
          rx_chunks, rx_req, rx_compared, tx_writes, rx_created, tx_created,
          corrupted, msg_id, rx_arg, tx_arg, rx_opens, tx_opens, rx_updates,
          cmp_buf1, cmp_buf2, cmp_len, cmp_i, cmp_out, cmp_pc,
          lim_optarg, lim_msglen, lim_len, lim_trunc, lim_avail, lim_top,
          lim_pc>>

(* ----------------------------- generator ------------------------------- *)

\* libbrahe's generator is outside the repository.  It is modelled as a
\* deterministic generator with explicit state: a linear congruential step.
PrngInit(seed) == seed % 65537

\* brahe_prng_next(): the state after one draw; the value drawn is that state.
PrngNext(s) == (75 * s + 74) % 65537

\* brahe_prng_range(&prng, lo, hi): one draw, mapped into lo..hi.
PrngRange(s, lo, hi) == lo + (PrngNext(s) % (hi - lo + 1))

\* The loop of msg_gen: n bytes, one draw each, truncated to unsigned char.
RECURSIVE GenBytes(_, _)
GenBytes(s, n) ==
    IF n = 0 THEN [buf |-> <<>>, prng |-> s]
    ELSE LET s1 == PrngNext(s)
             rest == GenBytes(s1, n - 1)
         IN [buf |-> <<s1 % ByteMod>> \o rest.buf, prng |-> rest.prng]

\* msg_gen(len): a negative len asks for a length drawn from 1..-len.
MsgGen(s, len) ==
    LET drawn == len < 0
        L == IF drawn THEN PrngRange(s, 1, -len) ELSE len
        s0 == IF drawn THEN PrngNext(s) ELSE s
        body == GenBytes(s0, L)
    IN [msg |-> [len |-> L, buf |-> body.buf],
        prng |-> body.prng,
        draws |-> (IF drawn THEN <<<<"len", L>>>> ELSE <<>>)
                  \o [i \in 1..L |-> <<"byte", body.buf[i]>>]]

NoMsg == [len |-> 0, buf |-> <<>>]

(* ------------------------------ helpers -------------------------------- *)

\* print_stats(): one line with the three counters.
PrintStats == stats_out' = Append(stats_out, <<msgs, tx_bytes, rx_bytes>>)

\* exit(status): the process ends, whichever thread calls it.
Exit(status, why) ==
    /\ exited' = TRUE
    /\ exit_status' = status
    /\ cause' = why

\* memcmp(b1, b2, n) # 0
Memcmp(b1, b2, n) == \E i \in 1..n : b1[i] # b2[i]

\* read(fd, buf + avail, ...) returning chunk: the chunk lands at buf[avail].
StoreChunk(buf, avail, chunk) ==
    [i \in 1..Len(buf) |->
        IF i > avail /\ i <= avail + Len(chunk) THEN chunk[i - avail]
        ELSE buf[i]]

Min(a, b) == IF a < b THEN a ELSE b

(* ------------------------------- Init ---------------------------------- *)

\* The state when main() reaches the for loop: options parsed (opt_msglen
\* was checked to be 1..MAX_MAX_MSG_LEN), generator seeded, handler installed.
ProgramInit ==
    /\ opt_seed \in Seeds
    /\ opt_msglen \in 1..MaxLen
    /\ opt_nmsgs \in 0..MaxRounds
    /\ is_tty \in BOOLEAN
    /\ prng = PrngInit(opt_seed)
    /\ msg = NoMsg
    /\ msg_alloc = FALSE
    /\ msgs = 0
    /\ tx_bytes = 0
    /\ rx_bytes = 0
    /\ main_pc = "loop"
    /\ rx_pc = "none"
    /\ tx_pc = "none"
    /\ rx_alive = 0
    /\ tx_alive = 0
    /\ rx_buf = [i \in 1..MaxLen |-> 0]
    /\ rx_avail = 0
    /\ rx_len = 0
    /\ rx_res = 0
    /\ tx_res = 0
    /\ rx_fd = FALSE
    /\ tx_fd = FALSE
    /\ fifo = <<>>
    /\ exited = FALSE
    /\ exit_status = 0
    /\ cause = "none"
    /\ stats_out = <<>>
    /\ drawLog = <<>>
    /\ completed = 0
    /\ sumLen = 0
    /\ sumTrunc = 0
    /\ rx_chunks = <<>>
    /\ rx_req = 0
    /\ rx_compared = -1
    /\ tx_writes = 0
    /\ rx_created = 0
    /\ tx_created = 0
    /\ corrupted = 0
    /\ msg_id = 0
    /\ rx_arg = 0
    /\ tx_arg = 0
    /\ rx_opens = 0
    /\ tx_opens = 0
    /\ rx_updates = 0

\* cmp_buffer() is not running.
CmpAtRest ==
    /\ cmp_buf1 = <<>>
    /\ cmp_buf2 = <<>>
    /\ cmp_len = 0
    /\ cmp_i = 0
    /\ cmp_out = <<>>
    /\ cmp_pc = "idle"

\* The length bookkeeping is not followed.
LimAtRest ==
    /\ lim_optarg = 0
    /\ lim_msglen = 0
    /\ lim_len = 0
    /\ lim_trunc = 0
    /\ lim_avail = 0
    /\ lim_top = -1
    /\ lim_pc = "idle"

\* The state when main() reaches the for loop.
Init == ProgramInit /\ CmpAtRest /\ LimAtRest

\* The program with one fixed configuration, for the specifications that
\* follow a single function and leave the program's state alone.
ProgramAtRest ==
    /\ ProgramInit
    /\ opt_seed = 1
    /\ opt_msglen = 1
    /\ opt_nmsgs = 0
    /\ is_tty = FALSE

(* ------------------------------- main() -------------------------------- *)

\* Faulty variant of MoreRounds: the loop runs one round too many.
MoreRounds_OffByOne == opt_nmsgs = 0 \/ msgs <= opt_nmsgs

\* The loop condition: !opt_nmsgs || msgs < opt_nmsgs.
MoreRounds == opt_nmsgs = 0 \/ msgs < opt_nmsgs

\* for (...; !opt_nmsgs || msgs < opt_nmsgs; ...): enter the body or leave
\* the loop.  msgs < MaxRounds bounds the unlimited run (msgs is an unsigned
\* int in the source and stays far below 2^32 here).
MainLoop ==
    /\ ~exited
    /\ main_pc = "loop"
    /\ IF MoreRounds
       THEN msgs < MaxRounds /\ main_pc' = "gen"
       ELSE main_pc' = "print"
    /\ UNCHANGED <<config, aux, instances, opens,
                   prng, msg, msg_alloc, stats, rx_pc, tx_pc, rx_alive,
                   tx_alive, rxLocals, tx_res, rx_fd, tx_fd, fifo, exitState,
                   stats_out, drawLog, rounds, tx_writes, created, corrupted>>

\* struct msg *msg = msg_gen(-opt_msglen);
MainGen ==
    /\ ~exited
    /\ main_pc = "gen"
    /\ LET g == MsgGen(prng, -opt_msglen)
       IN /\ msg' = g.msg
          /\ prng' = g.prng
          /\ drawLog' = drawLog \o g.draws
    /\ msg_alloc' = TRUE
    /\ msg_id' = msg_id + 1
    /\ rx_created' = 0
    /\ tx_created' = 0
    /\ main_pc' = "create_rx"
    /\ UNCHANGED <<config, aux, rx_arg, tx_arg, opens,
                   stats, rx_pc, tx_pc, rx_alive, tx_alive, rxLocals,
                   tx_res, rx_fd, tx_fd, fifo, exitState, stats_out, rounds,
                   tx_writes, corrupted>>

\* The arg of the receive thread: msg, the allocation of this round.
RxArg == msg_id

\* Faulty variant of TxArg: the transmit thread gets the message of the
\* round before.
TxArg_Previous == msg_id - 1

\* The arg of the transmit thread: msg, the allocation of this round.
TxArg == msg_id

\* pthread_create(&rx_thread, NULL, receive_start, msg);
MainCreateRx ==
    /\ ~exited
    /\ main_pc = "create_rx"
    /\ rx_pc' = "open"
    /\ rx_arg' = RxArg
    /\ rx_alive' = rx_alive + 1
    /\ rx_created' = rx_created + 1
    /\ main_pc' = "sleep"
    /\ UNCHANGED <<config, aux, msg_id, tx_arg, opens,
                   prng, msg, msg_alloc, stats, tx_pc, tx_alive,
                   rxLocals, tx_res, rx_fd, tx_fd, fifo, exitState, stats_out,
                   drawLog, rounds, tx_writes, tx_created, corrupted>>

\* nanosleep(&delay, NULL): 100 ms pass; how far the receive thread gets in
\* that time is up to the scheduler.
MainSleep ==
    /\ ~exited
    /\ main_pc = "sleep"
    /\ main_pc' = "create_tx"
    /\ UNCHANGED <<config, aux, instances, opens,
                   prng, msg, msg_alloc, stats, rx_pc, tx_pc, rx_alive,
                   tx_alive, rxLocals, tx_res, rx_fd, tx_fd, fifo, exitState,
                   stats_out, drawLog, rounds, tx_writes, created, corrupted>>

\* pthread_create(&tx_thread, NULL, transmit_start, msg);
MainCreateTx ==
    /\ ~exited
    /\ main_pc = "create_tx"
    /\ tx_pc' = "open"
    /\ tx_arg' = TxArg
    /\ tx_alive' = tx_alive + 1
    /\ tx_created' = tx_created + 1
    /\ tx_writes' = 0
    /\ main_pc' = "join_rx"
    /\ UNCHANGED <<config, aux, msg_id, rx_arg, opens,
                   prng, msg, msg_alloc, stats, rx_pc, rx_alive,
                   rxLocals, tx_res, rx_fd, tx_fd, fifo, exitState, stats_out,
                   drawLog, rounds, rx_created, corrupted>>

\* Faulty variant of RxFinished: main does not wait for the receive thread.
RxFinished_NoWait == TRUE

\* pthread_join(rx_thread, NULL) returns once receive_start has returned.
RxFinished == rx_pc = "done"

\* Faulty variant of TxFinished: main does not wait for the transmit thread.
TxFinished_NoWait == TRUE

\* pthread_join(tx_thread, NULL) returns once transmit_start has returned.
TxFinished == tx_pc = "done"

\* pthread_join(rx_thread, NULL);
MainJoinRx ==
    /\ ~exited
    /\ main_pc = "join_rx"
    /\ RxFinished
    /\ rx_pc' = "none"
    /\ main_pc' = "join_tx"
    /\ UNCHANGED <<config, aux, instances, opens,
                   prng, msg, msg_alloc, stats, tx_pc, rx_alive,
                   tx_alive, rxLocals, tx_res, rx_fd, tx_fd, fifo, exitState,
                   stats_out, drawLog, rounds, tx_writes, created, corrupted>>

\* pthread_join(tx_thread, NULL); both threads of the round have now been
\* joined, which the history variables record as a completed round.
MainJoinTx ==
    /\ ~exited
    /\ main_pc = "join_tx"
    /\ TxFinished
    /\ tx_pc' = "none"
    /\ main_pc' = "free"
    /\ completed' = completed + 1
    /\ sumLen' = sumLen + msg.len
    /\ sumTrunc' = sumTrunc + rx_len
    /\ UNCHANGED <<config, aux, instances, opens,
                   prng, msg, msg_alloc, stats, rx_pc, rx_alive,
                   tx_alive, rxLocals, tx_res, rx_fd, tx_fd, fifo, exitState,
                   stats_out, drawLog, tx_writes, created, corrupted>>

\* free(msg); and the loop's msgs++.
MainFree ==
    /\ ~exited
    /\ main_pc = "free"
    /\ msg' = NoMsg
    /\ msg_alloc' = FALSE
    /\ msgs' = msgs + 1
    /\ main_pc' = "loop"
    /\ UNCHANGED <<config, aux, instances, opens,
                   prng, tx_bytes, rx_bytes, rx_pc, tx_pc, rx_alive,
                   tx_alive, rxLocals, tx_res, rx_fd, tx_fd, fifo, exitState,
                   stats_out, drawLog, rounds, tx_writes, created, corrupted>>

\* print_stats(); after the loop.
MainPrint ==
    /\ ~exited
    /\ main_pc = "print"
    /\ PrintStats
    /\ main_pc' = "exit"
    /\ UNCHANGED <<config, aux, instances, opens,
                   prng, msg, msg_alloc, stats, rx_pc, tx_pc, rx_alive,
                   tx_alive, rxLocals, tx_res, rx_fd, tx_fd, fifo, exitState,
                   drawLog, rounds, tx_writes, created, corrupted>>

\* exit(0);
MainExit ==
    /\ ~exited
    /\ main_pc = "exit"
    /\ Exit(0, "normal")
    /\ UNCHANGED <<config, aux, instances, opens,
                   prng, msg, msg_alloc, stats, main_pc, rx_pc, tx_pc,
                   rx_alive, tx_alive, rxLocals, tx_res, rx_fd, tx_fd, fifo,
                   stats_out, drawLog, rounds, tx_writes, created, corrupted>>

(* --------------------------- device_open() ----------------------------- *)

\* What device_open() leaves in the receive queue: on a tty it ends with
\* tcflush(fd, TCIOFLUSH), which discards the bytes received and not read;
\* on any other device ("is not a tty, skipping tty config") nothing is
\* discarded.
FlushedQueue(q) == IF is_tty THEN <<>> ELSE q

(* --------------------------- receive_start() --------------------------- *)

\* int fd = device_open(opt_rxdev, O_RDONLY, 1); either the descriptor is
\* open, or one of the calls in device_open failed and it called exit(-1).
\* avail = 0 is the initialiser of the local.
RxOpen ==
    /\ ~exited
    /\ rx_pc = "open"
    /\ \/ /\ rx_fd' = TRUE
          /\ rx_opens' = rx_opens + 1
          /\ rx_updates' = 0
          /\ fifo' = FlushedQueue(fifo)
          /\ rx_avail' = 0
          /\ rx_chunks' = <<>>
          /\ rx_req' = 0
          /\ rx_compared' = -1
          /\ rx_pc' = "draw"
          /\ UNCHANGED exitState
       \/ /\ Exit(EXIT_FAILURE_STATUS, "open_error")
          /\ UNCHANGED <<rx_fd, fifo, rx_avail, rx_chunks, rx_req,
                         rx_compared, rx_pc, rx_opens, rx_updates>>
    /\ UNCHANGED <<config, aux, instances, tx_opens,
                   prng, msg, msg_alloc, stats, main_pc, tx_pc,
                   rx_alive, tx_alive, rx_buf, rx_len, rx_res, tx_res, tx_fd,
                   stats_out, drawLog, rounds, tx_writes, created, corrupted>>

\* Faulty variant of TruncLen: the upper bound of the draw is the configured maximum,
\* not the length of the message.
TruncLen_UpToMax(s, m) == PrngRange(s, 1, opt_msglen)

\* The range drawn for len: brahe_prng_range(&prng, 1, msg->len).
TruncLen(s, m) == PrngRange(s, 1, m.len)

\* len = brahe_prng_range(&prng, 1, msg->len);
RxDraw ==
    /\ ~exited
    /\ rx_pc = "draw"
    /\ rx_len' = TruncLen(prng, msg)
    /\ prng' = PrngNext(prng)
    /\ drawLog' = Append(drawLog, <<"trunc", TruncLen(prng, msg)>>)
    /\ rx_pc' = "read"
    /\ UNCHANGED <<config, aux, instances, opens,
                   msg, msg_alloc, stats, main_pc, tx_pc, rx_alive,
                   tx_alive, rx_buf, rx_avail, rx_res, rx_chunks, rx_req, rx_updates,
                   rx_compared, tx_res, rx_fd, tx_fd, fifo, exitState,
                   stats_out, rounds,
                   tx_writes, created, corrupted>>

\* Faulty variant of ReadLoopRuns: the loop stops one byte early.
ReadLoopRuns_OneShort == rx_avail + 1 < rx_len

\* while (avail < len)
ReadLoopRuns == rx_avail < rx_len

\* Faulty variant of ReadCount: the read asks for the rest of the whole message.
ReadCount_WholeMessage == msg.len - rx_avail

\* The count argument of read(): len - avail.
ReadCount == rx_len - rx_avail

\* Faulty variant of RxStore: every chunk is stored at the start of buf.
RxStore_AtStart(chunk) == StoreChunk(rx_buf, 0, chunk)

\* The buffer argument of read(): buf + avail.
RxStore(chunk) == StoreChunk(rx_buf, rx_avail, chunk)

\* Faulty variant of RxAccount: rx_bytes is set to, not increased by, the result.
RxAccount_Overwrite(res) == res

\* Faulty variant of RxAccount: the loop does not count what it reads.
RxAccount_Deferred(res) == rx_bytes

\* rx_bytes += res;
RxAccount(res) == rx_bytes + res

\* One pass of the loop: res = read(fd, buf + avail, len - avail).  A
\* negative res is fatal.  Otherwise res bytes, at most the count asked for
\* and at most what the queue holds, move from the head of the queue into
\* buf; res is 0 only when the queue is empty (the device reports end of
\* stream instead of blocking).
RxRead ==
    /\ ~exited
    /\ rx_pc = "read"
    /\ ReadLoopRuns
    /\ rx_req' = ReadCount
    /\ \/ /\ rx_res' = -1
          /\ Exit(EXIT_FAILURE_STATUS, "read_error")
          /\ UNCHANGED <<fifo, rx_buf, rx_avail, rx_bytes, rx_chunks,
                         rx_updates>>
       \/ \E res \in 0..Min(ReadCount, Len(fifo)) :
             /\ res = 0 => fifo = <<>>
             /\ rx_res' = res
             /\ LET chunk == SubSeq(fifo, 1, res)
                IN /\ rx_buf' = RxStore(chunk)
                   /\ rx_chunks' = IF res = 0 THEN rx_chunks
                                   ELSE Append(rx_chunks, chunk)
             /\ fifo' = SubSeq(fifo, res + 1, Len(fifo))
             /\ rx_avail' = rx_avail + res
             /\ rx_bytes' = RxAccount(res)
             /\ rx_updates' = IF res = 0 THEN rx_updates ELSE rx_updates + 1
             /\ UNCHANGED exitState
    /\ UNCHANGED <<config, aux, instances, opens,
                   prng, msg, msg_alloc, msgs, tx_bytes, main_pc,
                   rx_pc, tx_pc, rx_alive, tx_alive, rx_len, rx_compared,
                   tx_res, rx_fd, tx_fd, stats_out, drawLog, rounds, tx_writes,
                   created, corrupted>>

\* Faulty variant of Mismatch: only the first byte is compared.
Mismatch_FirstByteOnly == Memcmp(rx_buf, msg.buf, 1)

\* memcmp(buf, msg->buf, len) # 0
Mismatch == Memcmp(rx_buf, msg.buf, rx_len)

\* The loop has ended: if (memcmp(...)) { pr_error("Data mismatch");
\* cmp_buffer(...); print_stats(); ... } else the thread goes on to close.
RxCompare ==
    /\ ~exited
    /\ rx_pc = "read"
    /\ ~ReadLoopRuns
    /\ rx_compared' = rx_len
    /\ IF Mismatch
       THEN PrintStats /\ rx_pc' = "mismatch"
       ELSE rx_pc' = "close" /\ UNCHANGED stats_out
    /\ UNCHANGED <<config, aux, instances, opens,
                   prng, msg, msg_alloc, stats, main_pc, tx_pc,
                   rx_alive, tx_alive, rx_buf, rx_avail, rx_len, rx_res, rx_updates,
                   rx_chunks, rx_req, tx_res, rx_fd, tx_fd, fifo, exitState,
                   drawLog,
                   rounds, tx_writes, created, corrupted>>

\* exit(-1); at the end of the mismatch branch.
RxMismatchExit ==
    /\ ~exited
    /\ rx_pc = "mismatch"
    /\ Exit(EXIT_FAILURE_STATUS, "mismatch")
    /\ UNCHANGED <<config, aux, instances, opens,
                   prng, msg, msg_alloc, stats, main_pc, rx_pc, tx_pc,
                   rx_alive, tx_alive, rxLocals, tx_res, rx_fd, tx_fd, fifo,
                   stats_out, drawLog, rounds, tx_writes, created, corrupted>>

\* Faulty variant of RxClose: the thread returns with the device still open.
RxClose_LeavesOpen ==
    /\ ~exited
    /\ rx_pc = "close"
    /\ rx_pc' = "done"
    /\ rx_alive' = rx_alive - 1
    /\ UNCHANGED <<config, aux, instances, opens,
                   prng, msg, msg_alloc, stats, main_pc, tx_pc,
                   tx_alive, rxLocals, tx_res, rx_fd, tx_fd, fifo, exitState,
                   stats_out, drawLog, rounds, tx_writes, created, corrupted>>

\* close(fd); return NULL;
RxClose ==
    /\ ~exited
    /\ rx_pc = "close"
    /\ rx_fd' = FALSE
    /\ rx_pc' = "done"
    /\ rx_alive' = rx_alive - 1
    /\ UNCHANGED <<config, aux, instances, opens,
                   prng, msg, msg_alloc, stats, main_pc, tx_pc,
                   tx_alive, rxLocals, tx_res, tx_fd, fifo, exitState,
                   stats_out, drawLog, rounds, tx_writes, created, corrupted>>

(* --------------------------- transmit_start() -------------------------- *)

\* Faulty variant of TxOpen: the transmit thread draws from the generator
\* when it starts.
TxOpen_Draws ==
    /\ ~exited
    /\ tx_pc = "open"
    /\ tx_fd' = TRUE
    /\ tx_opens' = tx_opens + 1
    /\ tx_pc' = "write"
    /\ prng' = PrngNext(prng)
    /\ drawLog' = Append(drawLog, <<"byte", PrngNext(prng) % ByteMod>>)
    /\ UNCHANGED <<config, aux, instances, rx_opens,
                   msg, msg_alloc, stats, main_pc, rx_pc, rx_alive,
                   tx_alive, rxLocals, tx_res, rx_fd, fifo, exitState,
                   stats_out, rounds, tx_writes, created, corrupted>>

\* int fd = device_open(opt_txdev, O_WRONLY, 1); the flush of the transmit
\* device leaves the bytes already in the receive queue alone.
TxOpen ==
    /\ ~exited
    /\ tx_pc = "open"
    /\ \/ /\ tx_fd' = TRUE
          /\ tx_opens' = tx_opens + 1
          /\ tx_pc' = "write"
          /\ UNCHANGED exitState
       \/ /\ Exit(EXIT_FAILURE_STATUS, "open_error")
          /\ UNCHANGED <<tx_fd, tx_pc, tx_opens>>
    /\ UNCHANGED <<config, aux, instances, rx_opens,
                   prng, msg, msg_alloc, stats, main_pc, rx_pc,
                   rx_alive, tx_alive, rxLocals, tx_res, rx_fd, fifo,
                   stats_out, drawLog, rounds, tx_writes, created, corrupted>>

\* Faulty variant of TxAccount: the whole length is counted, whatever was written.
TxAccount_WholeLength(res) == tx_bytes + msg.len

\* tx_bytes += res;
TxAccount(res) == tx_bytes + res

\* res = write(fd, msg->buf, msg->len); if (res < 0) { ...; exit(-1); }
\* tx_bytes += res;  The device takes the first res bytes, 0 <= res <= len.
TxWrite ==
    /\ ~exited
    /\ tx_pc = "write"
    /\ tx_writes' = tx_writes + 1
    /\ \/ /\ Exit(EXIT_FAILURE_STATUS, "write_error")
          /\ UNCHANGED <<fifo, tx_res, tx_bytes, tx_pc>>
       \/ \E res \in 0..msg.len :
             /\ fifo' = fifo \o SubSeq(msg.buf, 1, res)
             /\ tx_res' = res
             /\ tx_bytes' = TxAccount(res)
             /\ tx_pc' = "wrote"
             /\ UNCHANGED exitState
    /\ UNCHANGED <<config, aux, instances, opens,
                   prng, msg, msg_alloc, msgs, rx_bytes, main_pc,
                   rx_pc, rx_alive, tx_alive, rxLocals, rx_fd, tx_fd,
                   stats_out, drawLog, rounds, created, corrupted>>

\* Faulty variant of ShortWrite: a short write is not noticed.
ShortWrite_Ignored == FALSE

\* if (res < msg->len)
ShortWrite == tx_res < msg.len

\* Faulty variant of TxShortCheck: after a short write the thread writes
\* again.
TxShortCheck_Retry ==
    /\ ~exited
    /\ tx_pc = "wrote"
    /\ tx_pc' = IF ShortWrite THEN "write" ELSE "close"
    /\ UNCHANGED <<config, aux, instances, opens,
                   prng, msg, msg_alloc, stats, main_pc, rx_pc,
                   rx_alive, tx_alive, rxLocals, tx_res, rx_fd, tx_fd, fifo,
                   exitState, stats_out, drawLog, rounds, tx_writes, created,
                   corrupted>>

\* if (res < msg->len) { pr_error("Short write ..."); exit(-1); }
TxShortCheck ==
    /\ ~exited
    /\ tx_pc = "wrote"
    /\ IF ShortWrite
       THEN Exit(EXIT_FAILURE_STATUS, "short_write") /\ UNCHANGED tx_pc
       ELSE tx_pc' = "close" /\ UNCHANGED exitState
    /\ UNCHANGED <<config, aux, instances, opens,
                   prng, msg, msg_alloc, stats, main_pc, rx_pc,
                   rx_alive, tx_alive, rxLocals, tx_res, rx_fd, tx_fd, fifo,
                   stats_out, drawLog, rounds, tx_writes, created, corrupted>>

\* close(fd); return NULL;
TxClose ==
    /\ ~exited
    /\ tx_pc = "close"
    /\ tx_fd' = FALSE
    /\ tx_pc' = "done"
    /\ tx_alive' = tx_alive - 1
    /\ UNCHANGED <<config, aux, instances, opens,
                   prng, msg, msg_alloc, stats, main_pc, rx_pc,
                   rx_alive, rxLocals, tx_res, rx_fd, fifo, exitState,
                   stats_out, drawLog, rounds, tx_writes, created, corrupted>>

(* --------------------------- signal_handler() -------------------------- *)

\* exit(-1) in signal_handler.
HandlerStatus == EXIT_FAILURE_STATUS

\* Faulty variant of Interrupt: the handler prints and returns, without exit().
Interrupt_Returns ==
    /\ ~exited
    /\ cause # "sigint"
    /\ PrintStats
    /\ cause' = "sigint"
    /\ UNCHANGED <<config, aux, instances, opens,
                   prng, msg, msg_alloc, stats, main_pc, rx_pc, tx_pc,
                   rx_alive, tx_alive, rxLocals, tx_res, rx_fd, tx_fd, fifo,
                   exited, exit_status, drawLog, rounds, tx_writes, created,
                   corrupted>>

\* SIGINT arrives while the process runs: print_stats(); exit(-1);
Interrupt ==
    /\ ~exited
    /\ PrintStats
    /\ Exit(HandlerStatus, "sigint")
    /\ UNCHANGED <<config, aux, instances, opens,
                   prng, msg, msg_alloc, stats, main_pc, rx_pc, tx_pc,
                   rx_alive, tx_alive, rxLocals, tx_res, rx_fd, tx_fd, fifo,
                   drawLog, rounds, tx_writes, created, corrupted>>

(* ------------------------------ transport ------------------------------ *)

\* The link under test damages one byte that is in flight.
Corrupt ==
    /\ ~exited
    /\ corrupted < MaxCorrupt
    /\ \E i \in 1..Len(fifo) :
          fifo' = [fifo EXCEPT ![i] = (@ + 1) % ByteMod]
    /\ corrupted' = corrupted + 1
    /\ UNCHANGED <<config, aux, instances, opens,
                   prng, msg, msg_alloc, stats, main_pc, rx_pc, tx_pc,
                   rx_alive, tx_alive, rxLocals, tx_res, rx_fd, tx_fd,
                   exitState, stats_out, drawLog, rounds, tx_writes, created>>

(* ---------------------------- specification ---------------------------- *)

Next ==
    \/ MainLoop
    \/ MainGen
    \/ MainCreateRx
    \/ MainSleep
    \/ MainCreateTx
    \/ MainJoinRx
    \/ MainJoinTx
    \/ MainFree
    \/ MainPrint
    \/ MainExit
    \/ RxOpen
    \/ RxDraw
    \/ RxRead
    \/ RxCompare
    \/ RxMismatchExit
    \/ RxClose
    \/ TxOpen
    \/ TxWrite
    \/ TxShortCheck
    \/ TxClose
    \/ Interrupt
    \/ Corrupt

Spec == Init /\ [][Next]_vars

(* ------------------------------ properties ----------------------------- *)

IsPrefix(a, b) == Len(a) <= Len(b) /\ SubSeq(b, 1, Len(a)) = a

RECURSIVE Flatten(_)
Flatten(ss) == IF ss = <<>> THEN <<>> ELSE Head(ss) \o Flatten(Tail(ss))

\* The draws of n rounds made one after the other by a single task: the
\* build of a round, then its truncation draw, then the next round.
RECURSIVE SequentialDraws(_, _, _)
SequentialDraws(s, maxlen, n) ==
    IF n = 0 THEN <<>>
    ELSE LET g == MsgGen(s, -maxlen)
             t == PrngRange(g.prng, 1, g.msg.len)
         IN g.draws \o <<<<"trunc", t>>>>
                    \o SequentialDraws(PrngNext(g.prng), maxlen, n - 1)

\* The receive thread is past its draw in the current round.
RxPastDraw == rx_pc \in {"read", "mismatch", "close", "done"}

\* The receive thread is past its memcmp() in the current round.
RxPastCompare == rx_pc \in {"mismatch", "close", "done"}

\* The bytes the receive thread has read in the round, in the order read.
RxAccumulated == Flatten(rx_chunks)

\* C1 (determinism): in every state of every schedule, with any short reads,
\* short writes and corruption, the values drawn from the generator so far
\* (lengths, bytes, truncation lengths, in order) are a prefix of the one
\* sequence that the seed and the maximum length fix: build of round k, then
\* truncation draw of round k, then build of round k + 1.  Two runs with
\* the same seed and length therefore agree on every draw both of them make.
C1_Determinism ==
    IsPrefix(drawLog,
             SequentialDraws(PrngInit(opt_seed), opt_msglen, MaxRounds))

\* C1 witness: a second round has drawn its truncation length while the
\* first round was read in more than one piece or the second is mid-read.
C1_Witness ==
    /\ completed >= 1
    /\ rx_pc = "read"
    /\ rx_len >= 2
    /\ rx_avail = 1
    /\ Len(drawLog) >= 5

\* C2 (prefix equality): once the receive thread has compared, it goes on
\* to return normally exactly when the len bytes it accumulated equal the
\* first len bytes of the message position by position; otherwise it is in
\* the mismatch branch, where the only step is exit(-1), main is still
\* before the join of this round, and the round is never counted complete.
C2_PrefixEquality ==
    /\ RxPastCompare =>
          ((rx_pc # "mismatch") <=>
             (\A i \in 1..rx_len : RxAccumulated[i] = msg.buf[i]))
    /\ rx_pc = "mismatch" =>
          /\ main_pc \in {"sleep", "create_tx", "join_rx"}
          /\ Len(stats_out) >= 1
    /\ cause = "mismatch" =>
          /\ rx_pc = "mismatch"
          /\ exited
          /\ exit_status # 0

\* C2 witness: after a round that returned normally, a round whose second
\* byte was damaged has ended the process with a data mismatch.
C2_Witness ==
    /\ cause = "mismatch"
    /\ completed >= 1
    /\ rx_len >= 2
    /\ RxAccumulated[1] = msg.buf[1]
    /\ RxAccumulated[2] # msg.buf[2]

\* The value of avail when the last read() was issued.
AvailAtLastRead == IF rx_res > 0 THEN rx_avail - rx_res ELSE rx_avail

\* C3 (truncation bound): once len is drawn, 1 <= len <= msg->len; avail
\* never exceeds len; the last read() asked for at most len - avail bytes;
\* and the bytes read in the round never exceed len.
C3_TruncationBound ==
    RxPastDraw =>
        /\ 1 <= rx_len
        /\ rx_len <= msg.len
        /\ rx_avail <= rx_len
        /\ rx_req <= rx_len - AvailAtLastRead
        /\ Len(RxAccumulated) <= rx_len

\* C3 witness: the transmitter has written a whole 3-byte message and the
\* receiver has finished its round with a shorter len, leaving the rest.
C3_Witness ==
    /\ rx_pc = "done"
    /\ tx_pc = "done"
    /\ msg.len = 3
    /\ rx_len < msg.len
    /\ Len(fifo) >= 1

\* C4 (short reads): at every point of the loop the first avail bytes of
\* buf are the chunks read so far, in order, with nothing between them; the
\* comparison has run only when avail = len, and on exactly len bytes.
C4_ShortReads ==
    /\ RxPastDraw =>
          /\ rx_avail = Len(RxAccumulated)
          /\ SubSeq(rx_buf, 1, rx_avail) = RxAccumulated
          /\ \A k \in 1..Len(rx_chunks) : Len(rx_chunks[k]) >= 1
    /\ rx_pc = "read" => rx_compared = -1
    /\ RxPastCompare =>
          /\ rx_compared = rx_len
          /\ rx_avail = rx_len

\* C4 witness: three bytes arrived in three reads of one byte each and the
\* thread has compared them and found them equal.
C4_Witness ==
    /\ rx_pc = "close"
    /\ rx_len = 3
    /\ Len(rx_chunks) = 3

\* C5 as claimed: a short write does not end the process (the rest of the
\* message is written by further writes).
C5_ShortWriteCompleted == cause # "short_write"

\* C5 (amended): the transmit thread calls write() at most once per round;
\* it goes on to close and return only when that one write took the whole
\* message; a write that took fewer bytes has been added to tx_bytes and
\* ends the process with a non-zero status, with no further write.
C5_ShortWriteFatal ==
    /\ tx_writes <= 1
    /\ tx_pc \in {"close", "done"} => tx_res = msg.len /\ tx_writes = 1
    /\ cause = "short_write" =>
          /\ exited
          /\ exit_status # 0
          /\ tx_pc = "wrote"
          /\ tx_res < msg.len
          /\ tx_writes = 1
          /\ tx_bytes = sumLen + tx_res

\* C5 witness: a write that took one byte of a longer message has ended
\* the process.
C5_Witness ==
    /\ cause = "short_write"
    /\ tx_res = 1
    /\ msg.len >= 2

\* main is between rounds or past the loop: no thread of a round exists.
BetweenRounds ==
    main_pc \in {"free", "loop", "gen", "create_rx", "print", "exit"}

C7_RoundCount ==
    /\ main_pc \in {"print", "exit"} =>
          /\ opt_nmsgs > 0
          /\ completed = opt_nmsgs
          /\ msgs = opt_nmsgs
    /\ opt_nmsgs > 0 => completed <= opt_nmsgs /\ msgs <= opt_nmsgs
    /\ opt_nmsgs > 0 /\ main_pc \notin {"loop", "print", "exit"} =>
          msgs < opt_nmsgs
    /\ exited /\ exit_status = 0 =>
          /\ cause = "normal"
          /\ main_pc = "exit"
          /\ stats_out[Len(stats_out)][1] = opt_nmsgs
    /\ exited /\ cause # "normal" => exit_status # 0

\* C7 witness: a run of two configured rounds has ended with status 0.
C7_Witness ==
    /\ exited
    /\ exit_status = 0
    /\ opt_nmsgs = 2
    /\ completed = 2

\* C8 as claimed: whenever the process has ended by a write error, a short
\* write, a read error, a data mismatch, an interrupt or the normal end of
\* the loop, print_stats() has run exactly once.
C8_StatsOnEveryExit ==
    exited /\ cause \in {"write_error", "short_write", "read_error",
                          "mismatch", "sigint", "normal"}
        => Len(stats_out) = 1

\* The state part of C9: the handler can run whenever the process runs, and
\* the process it ended has printed the counters as they are and has a
\* non-zero status.
InterruptState ==
    /\ ~exited => ENABLED Interrupt
    /\ cause = "sigint" =>
          /\ exited
          /\ exit_status # 0
          /\ Len(stats_out) >= 1
          /\ stats_out[Len(stats_out)] = <<msgs, tx_bytes, rx_bytes>>

C10_NoOverlap ==
    /\ rx_alive <= 1
    /\ tx_alive <= 1
    /\ rx_created <= 1
    /\ tx_created <= rx_created
    /\ main_pc \in {"join_rx", "join_tx", "free"} =>
          rx_created = 1 /\ tx_created = 1
    /\ main_pc \in {"join_tx", "free"} => rx_alive = 0
    /\ BetweenRounds => rx_alive = 0 /\ tx_alive = 0
    /\ rx_alive = (IF rx_pc \in {"none", "done"} THEN 0 ELSE 1)
    /\ tx_alive = (IF tx_pc \in {"none", "done"} THEN 0 ELSE 1)

\* C10 witness: in a second round both threads are alive at once, for the
\* message built after the first round was joined.
C10_Witness ==
    /\ completed = 1
    /\ rx_alive = 1
    /\ tx_alive = 1
    /\ main_pc = "join_rx"


\* C11 as claimed: whenever a transmit thread of the round exists (it may
\* open its endpoint and write), the round's receive thread has already
\* drawn its len.
C11_DrawBeforeTxStart ==
    tx_pc # "none" => rx_pc \in {"read", "mismatch", "close", "done", "none"}


\* The number of draws of one kind in the log.
CountKind(log, kind) == Cardinality({i \in 1..Len(log) : log[i][1] = kind})

\* main is inside a round: the message is built and not yet freed.
InRound ==
    main_pc \in {"create_rx", "sleep", "create_tx", "join_rx", "join_tx"}

\* Whether the current, not yet completed round has made its len draw.
TruncDrawnThisRound ==
    \/ main_pc \in {"sleep", "create_tx", "join_rx"} /\ RxPastDraw
    \/ main_pc = "join_tx"

\* The state part of C12: every round started has one length draw and
\* msg->len byte draws, and every round whose receive thread is past its
\* draw has one truncation draw, and there are no other draws.
DrawCounts ==
    /\ CountKind(drawLog, "len") = completed + (IF InRound THEN 1 ELSE 0)
    /\ CountKind(drawLog, "byte") = sumLen + (IF InRound THEN msg.len ELSE 0)
    /\ CountKind(drawLog, "trunc") =
          completed + (IF TruncDrawnThisRound THEN 1 ELSE 0)
    /\ Len(drawLog) = CountKind(drawLog, "len") + CountKind(drawLog, "byte")
                      + CountKind(drawLog, "trunc")

\* A step in which main draws: msg_gen, with no thread of a round alive,
\* 1 + msg->len draws, the length first.
MainDrawStep ==
    /\ main_pc = "gen"
    /\ main_pc' = "create_rx"
    /\ rx_alive = 0 /\ tx_alive = 0
    /\ rx_pc = "none" /\ tx_pc = "none"
    /\ UNCHANGED <<rx_pc, tx_pc>>
    /\ Len(drawLog') = Len(drawLog) + 1 + msg'.len
    /\ drawLog'[Len(drawLog) + 1] = <<"len", msg'.len>>

\* A step in which the receive thread draws: one range draw, after its
\* creation, while main is in its sleep, its second pthread_create or its
\* join and does not move.
RxDrawStep ==
    /\ rx_pc = "draw"
    /\ rx_pc' = "read"
    /\ main_pc \in {"sleep", "create_tx", "join_rx"}
    /\ UNCHANGED <<main_pc, tx_pc>>
    /\ drawLog' = Append(drawLog, <<"trunc", rx_len'>>)

\* C12 (generator ownership): every step that advances the generator is
\* either main's msg_gen (1 + L draws, before either thread of the round is
\* created and with none alive) or the receive thread's single range draw
\* (after its creation, with main not moving); no step of the transmit
\* thread draws; and per round there are exactly one length draw, L byte
\* draws and, once the receive thread is past it, one truncation draw.
C12_GeneratorOwnership ==
    /\ []DrawCounts
    /\ [][prng' # prng \/ drawLog' # drawLog =>
            MainDrawStep \/ RxDrawStep]_vars

\* C12 witness: in a third round the receive thread has made its draw for
\* a 3-byte message while the transmit thread is alive.
C12_Witness ==
    /\ completed = 2
    /\ msg.len = 3
    /\ RxPastDraw
    /\ tx_alive = 1
    /\ CountKind(drawLog, "trunc") = 3


\* C13 as claimed: a read() that returned 0 with fewer than len bytes
\* accumulated has ended the process (the loop is not entered again), and
\* the transmit thread never goes on after a write() that took 0 bytes.
C13_PrematureCloseFatal ==
    /\ rx_pc = "read" /\ rx_req > 0 /\ rx_res = 0 /\ rx_avail < rx_len
          => exited
    /\ tx_pc \in {"close", "done"} => tx_res > 0


\* C15 as claimed: the statistics printed for a data mismatch carry, as the
\* received total, the sum of len over the rounds completed before.
C15_MismatchExcludesRound ==
    rx_pc = "mismatch" => stats_out[Len(stats_out)][3] = sumTrunc

\* C15 (amended): the receive thread adds every read's result to rx_bytes
\* inside the loop, before it compares; so during a round rx_bytes is the
\* sum over the completed rounds plus avail, and the statistics printed for
\* a data mismatch carry the sum over the completed rounds plus the len
\* bytes of the failing round, with msgs the number of completed rounds.
C15_MismatchIncludesRound ==
    /\ RxPastDraw => rx_bytes = sumTrunc + rx_avail
    /\ rx_pc = "mismatch" =>
          /\ rx_bytes = sumTrunc + rx_len
          /\ stats_out[Len(stats_out)][3] = sumTrunc + rx_len
          /\ stats_out[Len(stats_out)][1] = completed

\* C15 witness: a third round has ended in a data mismatch on two or more
\* bytes.
C15_Witness ==
    /\ cause = "mismatch"
    /\ completed = 2
    /\ rx_len >= 2
    /\ sumTrunc >= 2


\* ---------------------------------------------------------------------------
\* cmp_line() and cmp_buffer()
\* ---------------------------------------------------------------------------

\* The longest len cmp_buffer() is called with.
CmpMaxLen == 34

\* The bytes of a row: the 16 and 16u in print_line, cmp_line, cmp_buffer.
RowLen == 16

\* The size of the two buffers: CmpMaxLen rounded up to whole rows.
CmpBufLen == RowLen * ((CmpMaxLen + RowLen - 1) \div RowLen)

\* The expected bytes.
CmpPattern == [k \in 1..CmpBufLen |-> (37 * k + 11) % ByteMod]

\* The expected bytes with the bytes at the offsets in D changed.
CmpDamaged(D) ==
    [k \in 1..CmpBufLen |->
        IF (k - 1) \in D THEN (CmpPattern[k] + 1) % ByteMod ELSE CmpPattern[k]]

\* cmp_line(): for (i = 0; i < len; i++) if (buf1[i] == buf2[i]) ... else
\* res++;  with buf1 and buf2 pointing at offset off of b1 and b2.
RECURSIVE CmpLineFrom(_, _, _, _, _, _)
CmpLineFrom(b1, b2, off, len, i, res) ==
    IF i < len
    THEN CmpLineFrom(b1, b2, off, len, i + 1,
                     IF b1[off + i + 1] = b2[off + i + 1] THEN res ELSE res + 1)
    ELSE res

\* cmp_line(address, buf1, buf2, len): the value returned.
CmpLine(b1, b2, off, len) == CmpLineFrom(b1, b2, off, len, 0, 0)

\* cmp_line(): the offsets within the row that are printed in red.
CmpLineRed(b1, b2, off, len) ==
    {i \in 0..(len - 1) : b1[off + i + 1] # b2[off + i + 1]}

\* Faulty variant of RowBytes: every row is taken to be a full row.
RowBytes_Full(len, i) == RowLen

\* min(len - i, 16u)
RowBytes(len, i) == Min(len - i, RowLen)

\* cmp_buffer() is called with two buffers that differ at up to two offsets,
\* anywhere in the buffers, and a len of 0..CmpMaxLen.
CmpInit ==
    /\ ProgramAtRest
    /\ LimAtRest
    /\ cmp_len \in 0..CmpMaxLen
    /\ cmp_buf2 = CmpPattern
    /\ \E d1, d2 \in 0..CmpMaxLen :
          cmp_buf1 = CmpDamaged({d1, d2} \ {CmpMaxLen})
    /\ cmp_i = 0
    /\ cmp_out = <<>>
    /\ cmp_pc = "loop"

\* One pass of the loop of cmp_buffer(): cmp_line() prints the row of buf1
\* and returns its count; unless that is 0, "Expected:" and the row of buf2
\* follow; i += 16.
CmpBufferRow ==
    /\ cmp_pc = "loop"
    /\ cmp_i < cmp_len
    /\ LET n == RowBytes(cmp_len, cmp_i)
           res == CmpLine(cmp_buf1, cmp_buf2, cmp_i, n)
           row == [kind |-> "row", address |-> cmp_i, len |-> n, res |-> res,
                   red |-> CmpLineRed(cmp_buf1, cmp_buf2, cmp_i, n)]
           expected == [kind |-> "expected", address |-> cmp_i, len |-> n,
                        res |-> 0, red |-> {}]
       IN  cmp_out' = IF res = 0 THEN Append(cmp_out, row)
                      ELSE cmp_out \o <<row, expected>>
    /\ cmp_i' = cmp_i + RowLen
    /\ UNCHANGED <<program, limVars, cmp_buf1, cmp_buf2, cmp_len, cmp_pc>>

\* The loop of cmp_buffer() ends: i >= len.
CmpBufferReturn ==
    /\ cmp_pc = "loop"
    /\ cmp_i >= cmp_len
    /\ cmp_pc' = "done"
    /\ UNCHANGED <<program, limVars, cmp_buf1, cmp_buf2, cmp_len, cmp_i, cmp_out>>

CmpNext == CmpBufferRow \/ CmpBufferReturn

CmpSpec == CmpInit /\ [][CmpNext]_vars

\* The offsets below len at which the two buffers differ.
CmpDiffs == {k \in 0..(cmp_len - 1) : cmp_buf1[k + 1] # cmp_buf2[k + 1]}

\* The places of cmp_out that hold a row printed by cmp_line().
CmpRows == {j \in 1..Len(cmp_out) : cmp_out[j].kind = "row"}

\* The sum of the counts cmp_line() returned.
RECURSIVE CmpSum(_)
CmpSum(out) == IF out = <<>> THEN 0 ELSE Head(out).res + CmpSum(Tail(out))

\* The row at place j covers 16 bytes, the last row len mod 16 when that is
\* not 0, and its count is the number of differing offsets in the row.
CmpRowCount(j) ==
    LET r == cmp_out[j]
        n == IF cmp_len - r.address >= RowLen THEN RowLen ELSE cmp_len % RowLen
    IN  /\ r.address % RowLen = 0
        /\ r.address < cmp_len
        /\ r.len = n
        /\ r.res = Cardinality({k \in CmpDiffs :
                                   k >= r.address /\ k < r.address + n})
        /\ r.red = {k - r.address : k \in {d \in CmpDiffs :
                                   d >= r.address /\ d < r.address + n}}

\* The expected row follows the row at place j exactly when its count is > 0.
CmpExpectedShown(j) ==
    cmp_out[j].res > 0 <=>
        /\ j < Len(cmp_out)
        /\ cmp_out[j + 1].kind = "expected"
        /\ cmp_out[j + 1].address = cmp_out[j].address

\* An expected row is only ever printed right after its row.
CmpExpectedPlaced ==
    \A j \in 1..Len(cmp_out) :
        cmp_out[j].kind = "expected" =>
            j > 1 /\ cmp_out[j - 1].kind = "row" /\ cmp_out[j - 1].res > 0

\* When cmp_buffer() returns: every row below len was printed, the counts
\* sum to more than 0 exactly when memcmp() reports a difference, and one
\* differing byte at p gives count 1 in row p div 16 and 0 in the others.
CmpReturned ==
    cmp_pc = "done" =>
        /\ {cmp_out[j].address : j \in CmpRows} =
              {a \in 0..(cmp_len - 1) : a % RowLen = 0}
        /\ CmpSum(cmp_out) > 0 <=> Memcmp(cmp_buf1, cmp_buf2, cmp_len)
        /\ CmpSum(cmp_out) = Cardinality(CmpDiffs)
        /\ \A p \in 0..(cmp_len - 1) :
              CmpDiffs = {p} =>
                  \A j \in CmpRows :
                      cmp_out[j].res =
                          IF cmp_out[j].address = RowLen * (p \div RowLen)
                          THEN 1 ELSE 0

\* C17 (diff comparator): comparing two buffers over len bytes in rows of 16
\* (the last row len mod 16 bytes when len is no multiple), the count
\* returned for each row is the number of positions in the row where the
\* buffers differ; the expected row is printed after a row if and only if
\* that row's count is > 0; and the counts sum to more than 0 exactly when
\* the memcmp() of receive_start reports a mismatch, so one corrupted byte at
\* offset p flags only row p div 16, with count 1.
C17_DiffComparator ==
    /\ \A j \in CmpRows : CmpRowCount(j) /\ CmpExpectedShown(j)
    /\ CmpExpectedPlaced
    /\ CmpReturned

\* Three rows, the last one partial, with one corrupted byte in the second:
\* only the second row is followed by its expected row.
C17_Witness ==
    /\ cmp_pc = "done"
    /\ cmp_len > 2 * RowLen /\ cmp_len % RowLen # 0
    /\ CmpDiffs = {RowLen + 1}
    /\ Len(cmp_out) = 4
    /\ cmp_out[3].kind = "expected" /\ cmp_out[2].res = 1

\* ---------------------------------------------------------------------------
\* The message length and the receive buffer
\* ---------------------------------------------------------------------------

DEFAULT_MAX_MSG_LEN == 1024

MAX_MAX_MSG_LEN == 4096

\* No -l on the command line.
NoOption == 0 - 1

\* The values given with -l, as the uint32_t that strtoul() leaves in
\* opt_msglen: the smallest, the largest, and the ones next to the limits.
LenArgs ==
    {0, 1, 2, DEFAULT_MAX_MSG_LEN, MAX_MAX_MSG_LEN - 1, MAX_MAX_MSG_LEN,
     MAX_MAX_MSG_LEN + 1}

\* Faulty variant of AcceptLength: the limit is taken one too high.
AcceptLength_OneTooHigh(v) == ~(v = 0 \/ v > MAX_MAX_MSG_LEN + 1)

\* if (!opt_msglen || opt_msglen > MAX_MAX_MSG_LEN) usage();
AcceptLength(v) == ~(v = 0 \/ v > MAX_MAX_MSG_LEN)

\* The results of brahe_prng_range(&prng, lo, hi) that are followed: both
\* ends of the range, their neighbours and the middle.
RangeSamples(lo, hi) ==
    {v \in {lo, lo + 1, (lo + hi) \div 2, hi - 1, hi} : lo <= v /\ v <= hi}

\* The results of read(fd, buf + avail, count) that are followed: one byte,
\* half of count, all of count.
ReadSamples(count) ==
    {v \in {1, count \div 2, count} : 1 <= v /\ v <= count}

\* main() starts with some -l argument, or none.
LimInit ==
    /\ ProgramAtRest
    /\ CmpAtRest
    /\ lim_optarg \in LenArgs \cup {NoOption}
    /\ lim_msglen = DEFAULT_MAX_MSG_LEN
    /\ lim_len = 0
    /\ lim_trunc = 0
    /\ lim_avail = 0
    /\ lim_top = -1
    /\ lim_pc = "parse"

\* The -l branch of the option loop: opt_msglen = strtoul(...); if
\* (!opt_msglen || opt_msglen > MAX_MAX_MSG_LEN) usage();  usage() exits.
LimParse ==
    /\ lim_pc = "parse"
    /\ IF lim_optarg = NoOption
       THEN lim_pc' = "gen" /\ UNCHANGED lim_msglen
       ELSE /\ lim_msglen' = lim_optarg
            /\ lim_pc' = IF AcceptLength(lim_optarg) THEN "gen" ELSE "usage"
    /\ UNCHANGED <<program, cmpVars, lim_optarg, lim_len, lim_trunc, lim_avail,
                   lim_top>>

\* msg_gen(-opt_msglen): len = brahe_prng_range(&prng, 1, -len);
\* msg->len = len.
LimGen ==
    /\ lim_pc = "gen"
    /\ \E len \in RangeSamples(1, lim_msglen) : lim_len' = len
    /\ lim_pc' = "draw"
    /\ UNCHANGED <<program, cmpVars, lim_optarg, lim_msglen, lim_trunc,
                   lim_avail, lim_top>>

\* receive_start(): len = brahe_prng_range(&prng, 1, msg->len); avail = 0.
LimDraw ==
    /\ lim_pc = "draw"
    /\ \E len \in RangeSamples(1, lim_len) : lim_trunc' = len
    /\ lim_avail' = 0
    /\ lim_pc' = "read"
    /\ UNCHANGED <<program, cmpVars, lim_optarg, lim_msglen, lim_len, lim_top>>

\* while (avail < len) { res = read(fd, buf + avail, len - avail); ...
\* avail += res; }  The read stores buf[avail] .. buf[avail + res - 1].
LimRead ==
    /\ lim_pc = "read"
    /\ lim_avail < lim_trunc
    /\ \E res \in ReadSamples(lim_trunc - lim_avail) :
          /\ lim_top' = IF lim_avail + res - 1 > lim_top
                        THEN lim_avail + res - 1 ELSE lim_top
          /\ lim_avail' = lim_avail + res
    /\ UNCHANGED <<program, cmpVars, lim_optarg, lim_msglen, lim_len, lim_trunc,
                   lim_pc>>

\* The read loop ends: avail >= len.
LimReadDone ==
    /\ lim_pc = "read"
    /\ lim_avail >= lim_trunc
    /\ lim_pc' = "done"
    /\ UNCHANGED <<program, cmpVars, lim_optarg, lim_msglen, lim_len, lim_trunc,
                   lim_avail, lim_top>>

LimNext == LimParse \/ LimGen \/ LimDraw \/ LimRead \/ LimReadDone

LimSpec == LimInit /\ [][LimNext]_vars

\* C19 (length and buffer bound): every accepted configuration has
\* 1 <= opt_msglen <= 4096; every message built has 1 <= msg->len <=
\* opt_msglen; so the len of receive_start is at most 4096 and every index
\* written in its buffer of 4096 bytes is below 4096.
C19_LengthAndBufferBound ==
    /\ lim_pc = "usage" => lim_len = 0 /\ lim_top = -1
    /\ lim_pc \in {"gen", "draw", "read", "done"} =>
          1 <= lim_msglen /\ lim_msglen <= MAX_MAX_MSG_LEN
    /\ lim_pc \in {"draw", "read", "done"} =>
          1 <= lim_len /\ lim_len <= lim_msglen
    /\ lim_pc \in {"read", "done"} =>
          /\ 1 <= lim_trunc /\ lim_trunc <= lim_len
          /\ lim_trunc <= MAX_MAX_MSG_LEN
          /\ lim_avail <= lim_trunc
          /\ lim_top = lim_avail - 1
    /\ lim_top < MAX_MAX_MSG_LEN

\* The largest case: -l 4096, a message of 4096 bytes, all of them received
\* after short reads, the last index written being 4095.
C19_Witness ==
    /\ lim_pc = "done"
    /\ lim_optarg = MAX_MAX_MSG_LEN
    /\ lim_len = MAX_MAX_MSG_LEN
    /\ lim_trunc = MAX_MAX_MSG_LEN
    /\ lim_top = MAX_MAX_MSG_LEN - 1

\* ---------------------------------------------------------------------------
\* Message lifetime
\* ---------------------------------------------------------------------------

\* A worker that has been created and not yet joined works on the live
\* allocation of this round.
WorkersHoldLiveMessage ==
    /\ rx_pc # "none" => msg_alloc /\ rx_arg = msg_id
    /\ tx_pc # "none" => msg_alloc /\ tx_arg = msg_id
    /\ rx_pc # "none" /\ tx_pc # "none" => rx_arg = tx_arg

\* The step of main that builds the message of a round.
MessageBuilt == main_pc = "gen" /\ ~msg_alloc /\ msg_alloc' /\ msg_id' = msg_id + 1

\* The step of main that discards it, with both workers joined.
MessageDiscarded ==
    /\ main_pc = "free" /\ msg_alloc /\ ~msg_alloc'
    /\ rx_pc = "none" /\ tx_pc = "none"
    /\ rx_alive = 0 /\ tx_alive = 0

\* C14: from the moment a round's message is built until it is discarded its
\* length and bytes are unchanged by main and by both workers; both workers of
\* the round receive the same message instance; and the message is discarded
\* only after both workers have finished, so no worker reads a discarded
\* message.
C14_MessageLifetime ==
    /\ []WorkersHoldLiveMessage
    /\ [][msg' # msg \/ msg_alloc' # msg_alloc \/ msg_id' # msg_id =>
            MessageBuilt \/ MessageDiscarded]_vars

\* Both workers of the second round are running on the second allocation.
C14_Witness ==
    /\ completed = 1 /\ msg_id = 2 /\ rx_arg = 2 /\ tx_arg = 2
    /\ rx_pc = "read" /\ tx_pc = "wrote" /\ msg.len >= 2


\* ---------------------------------------------------------------------------
\* Writers of the statistics
\* ---------------------------------------------------------------------------

\* C16 as stated: each worker changes its total at most once in a round.
C16_OncePerRound == rx_updates <= 1 /\ tx_writes <= 1

\* tx_bytes changes only in the write step of the transmit thread.
TxBytesWriter == tx_bytes' # tx_bytes => tx_pc = "write" /\ tx_pc' = "wrote"

\* rx_bytes changes only in a read step of the receive thread.
RxBytesWriter ==
    rx_bytes' # rx_bytes =>
        rx_pc = "read" /\ rx_avail' > rx_avail /\ rx_updates' = rx_updates + 1

\* msgs changes only in main, with both workers joined.
MsgsWriter ==
    msgs' # msgs => main_pc = "free" /\ rx_pc = "none" /\ tx_pc = "none"

\* C16: no statistics field is written by both workers (tx_bytes only by the
\* transmit thread, rx_bytes only by the receive thread, msgs only by main);
\* the transmit thread updates tx_bytes at most once in a round, and the
\* receive thread updates rx_bytes once for every read() that returns bytes,
\* so at most as many times as it has bytes of the round.
C16_StatisticsWriters ==
    /\ [](tx_writes <= 1 /\ rx_updates <= rx_avail)
    /\ [][TxBytesWriter /\ RxBytesWriter /\ MsgsWriter]_vars

\* A round in which the receive thread has updated rx_bytes for three short
\* reads and the transmit thread once.
C16_Witness ==
    /\ rx_updates = 3 /\ rx_avail = 3 /\ tx_writes = 1 /\ tx_pc = "done"
    /\ completed >= 1


\* ---------------------------------------------------------------------------
\* Lifecycle of the two devices
\* ---------------------------------------------------------------------------

\* C18 as stated: each device is opened once, before the first round, and
\* stays open across the rounds.
C18_OpenedOnceBeforeLoop ==
    /\ rx_opens <= 1 /\ tx_opens <= 1
    /\ main_pc \in {"create_rx", "sleep", "create_tx", "join_rx", "join_tx"} /\ ~exited
          => rx_fd /\ tx_fd

\* The positions of a worker at which its descriptor is open.
RxHoldsDevice == rx_pc \in {"draw", "read", "mismatch", "close"}
TxHoldsDevice == tx_pc \in {"write", "wrote", "close"}

\* C18: each device is opened by its own worker at the start of every round
\* (the receive device is flushed then when it is a tty) and closed by that
\* worker before it returns, so a device is open only while its worker runs,
\* no device is open between rounds, and after k completed rounds each device
\* has been opened k times.
C18_OpenedEveryRound ==
    /\ [](rx_fd <=> RxHoldsDevice)
    /\ [](tx_fd <=> TxHoldsDevice)
    /\ [](BetweenRounds => ~rx_fd /\ ~tx_fd)
    /\ [](rx_opens \in {completed, completed + 1})
    /\ [](tx_opens \in {completed, completed + 1})
    /\ [](main_pc = "loop" => rx_opens = completed /\ tx_opens = completed)
    /\ [][rx_opens' # rx_opens =>
            /\ rx_pc = "open" /\ rx_opens' = rx_opens + 1
            /\ fifo' = FlushedQueue(fifo)]_vars
    /\ [][tx_opens' # tx_opens =>
            tx_pc = "open" /\ tx_opens' = tx_opens + 1]_vars

\* The third round: both devices have been opened for the third time.
C18_Witness ==
    /\ rx_opens = 3 /\ tx_opens = 3 /\ completed = 2 /\ rx_fd /\ tx_fd
    /\ is_tty


\* ---------------------------------------------------------------------------
\* Rounds on a lossless transport
\* ---------------------------------------------------------------------------

\* The transmit thread has written the whole message and returned, and the
\* receive thread waits for more bytes than are left in the transport: the
\* round cannot end.
RoundStarved ==
    /\ tx_pc = "done" /\ rx_pc = "read"
    /\ rx_avail + Len(fifo) < rx_len

\* C20 as stated, in the form a finite run can refute: as long as the
\* transport has corrupted nothing, no comparison reports a mismatch and no
\* round is left waiting for bytes that cannot come.
C20_LosslessRoundsSucceed ==
    corrupted = 0 =>
        /\ rx_pc # "mismatch" /\ cause # "mismatch"
        /\ ~RoundStarved

=============================================================================
